---- MODULE Spec2Model ----
(***************************************************************************)
(* GitDagBundle (airflow/dag_processing/bundles/git.py): a bare mirror per *)
(* bundle name, one working copy per (name, version-or-tracking-ref),      *)
(* driven by the constructor and refresh(), against an origin repository   *)
(* whose branches move underneath it.                                      *)
(*                                                                         *)
(* Commits are numbers (0 is "no commit" / version None); a commit's       *)
(* content is identified with the commit, so "index and working tree       *)
(* equal commit c" is tree = c.  Versions are full commit ids.             *)
(***************************************************************************)
EXTENDS Integers, Sequences, FiniteSets, TLC

\* ---- bounds of the model
MaxCommits == 4
MaxPin == 2
NInst == 2
MaxOps == 3
MaxForce == 1
MaxLen == 2

\* the names tracking_ref is drawn from
Branches == {"main"}
DefaultBranch == "main"
NoCommit == 0
Commits == 1..MaxCommits
Inst == 1..NInst
\* the commit ids a version argument is drawn from: 1 is in every clone, the
\* others may or may not have reached the mirror
Versions == 2..(MaxPin + 1)
Detached == ""

VARIABLES
  ncommits,     \* commits 1..ncommits exist somewhere
  parents,      \* the commit graph
  origin,       \* refs/heads/* of the repository at repo_url
  pullMode,     \* what the installed git does on a divergent pull
  mirror,       \* the bare repository at bare_repo_path
  wc,           \* the working copies, by repo_path
  inst,         \* the GitDagBundle objects and where each one is in its code
  gh,           \* per operation: what it has done so far (history only)
  mirrorClones, \* how often the mirror was cloned from repo_url (history only)
  resolved,     \* pinned working copies whose reset has completed (history only)
  base,         \* per instance: the result of its previous refresh (history only)
  nops,         \* constructions and refresh() calls started so far
  nforce,       \* forced updates of origin branches so far
  pin,          \* the constructor arguments of two bundles, as strings
  pout,         \* their bare_repo_path and repo_path
  uin,          \* repo_url and the version argument of a view_url call
  uout,         \* what the call returned or raised
  serial        \* whether the caller runs one operation at a time per cache key

vars == <<ncommits, parents, origin, pullMode, mirror, wc, inst, gh,
          mirrorClones, resolved, base, nops, nforce, pin, pout, uin, uout, serial>>

\* ---- the commit graph
RECURSIVE Closure(_)
Closure(S) ==
  LET T == S \cup UNION {parents[c] : c \in S}
  IN IF T = S THEN S ELSE Closure(T)

Reach(refs) == Closure({refs[b] : b \in Branches} \ {NoCommit})

IsAncestor(a, b) == a \in Closure({b})

\* Commits made upstream have at most one parent; merges are made by pull.
UpstreamCommits == {c \in 1..ncommits : Cardinality(parents[c]) <= 1}

\* ---- repositories on disk
NoRefs == [b \in Branches |-> NoCommit]

NoMirror == [exists |-> FALSE, objs |-> {}, heads |-> NoRefs]

NoWc == [exists |-> FALSE, objs |-> {}, heads |-> NoRefs, remotes |-> NoRefs,
         HEAD |-> [br |-> Detached, at |-> NoCommit], tree |-> NoCommit]

\* repo.head.commit
HeadCommit(w) == IF w.HEAD.br # Detached THEN w.heads[w.HEAD.br] ELSE w.HEAD.at

Clean(w) == w.tree = HeadCommit(w)

\* self.version or self.tracking_ref, as the key of the working copy
WcKey(version, ref) ==
  IF version # NoCommit THEN [v |-> version, r |-> Detached]
  ELSE [v |-> NoCommit, r |-> ref]

Keys == {WcKey(v, r) : v \in {NoCommit} \cup Versions, r \in Branches}

KeyOf(i) == WcKey(inst[i].version, inst[i].ref)

\* Repo(path) opens the directory: a path that a killed clone left behind
\* exists, and is not a repository
IsRepo(repo) == repo.exists /\ repo.objs # {}

\* what a clone that was killed leaves at its path
Partial(none) == [none EXCEPT !.exists = TRUE]

\* _has_version: repo.commit(version) resolves
HasVersion(repo, version) == version \in repo.objs

\* Repo.clone_from(url=repo_url, bare=True)
CloneBare(org) == [exists |-> TRUE, objs |-> Reach(org), heads |-> org]

\* bare_repo.remotes.origin.fetch("+refs/heads/*:refs/heads/*"): forced, no prune
FetchHeads(m, org) ==
  [m EXCEPT !.heads = [b \in Branches |-> IF org[b] # NoCommit THEN org[b] ELSE @[b]],
            !.objs = @ \cup Reach(org)]

\* Repo.clone_from(url=bare_repo_path): a local clone takes the whole object
\* store and checks out the branch the mirror's HEAD names.
CloneFromMirror(m) ==
  [exists |-> TRUE, objs |-> m.objs,
   heads |-> [b \in Branches |-> IF b = DefaultBranch THEN m.heads[b] ELSE NoCommit],
   remotes |-> m.heads,
   HEAD |-> [br |-> DefaultBranch, at |-> NoCommit],
   tree |-> m.heads[DefaultBranch]]

\* the commit git checkout <ref> would switch to: the local branch, else a new
\* local branch made from origin/<ref>
CheckoutTarget(w, ref) ==
  IF w.heads[ref] # NoCommit THEN w.heads[ref] ELSE w.remotes[ref]

\* a checkout that refuses whenever the index or working tree differs from
\* the head
CheckoutNeedsClean(w, ref) ==
  /\ CheckoutTarget(w, ref) # NoCommit
  /\ Clean(w)

\* git checkout refuses when there is no such ref, or when local changes
\* would be overwritten
CheckoutOk(w, ref) ==
  /\ CheckoutTarget(w, ref) # NoCommit
  /\ Clean(w) \/ w.tree = CheckoutTarget(w, ref)

Checkout(w, ref) ==
  [w EXCEPT !.heads[ref] = CheckoutTarget(w, ref),
            !.HEAD = [br |-> ref, at |-> NoCommit],
            !.tree = CheckoutTarget(w, ref)]

\* repo.remotes.origin.fetch() in the working copy: origin is the mirror
WcFetch(w, m) ==
  [w EXCEPT !.remotes = [b \in Branches |-> IF m.heads[b] # NoCommit THEN m.heads[b] ELSE @[b]],
            !.objs = @ \cup Reach(m.heads)]

\* repo.head.set_reference(repo.commit(version)): HEAD is written with the id
SetReference(w, version) == [w EXCEPT !.HEAD = [br |-> Detached, at |-> version]]

\* a reset that leaves the index and working tree as they are
ResetKeepsTree(w) == w

\* a reset to the tip of the default branch instead of the head
ResetToBranch(w) == [w EXCEPT !.tree = w.heads[DefaultBranch]]

\* repo.head.reset(index=True, working_tree=True): git reset --hard HEAD
ResetHard(w) == [w EXCEPT !.tree = HeadCommit(w)]

\* lines 67-68 on working copy w: detach the head at version, reset to it
DetachAndReset(w, version) == ResetHard(SetReference(w, version))

\* repo.remotes.origin.pull(): fetch from the mirror, then merge origin/<branch>
\* into the current branch.  kind is what the merge step does.
PullKind(f) ==
  LET b == f.HEAD.br
      ours == HeadCommit(f)
      theirs == IF b # Detached THEN f.remotes[b] ELSE NoCommit
  IN IF b = Detached \/ theirs = NoCommit THEN "refused"
     ELSE IF IsAncestor(theirs, ours) THEN "uptodate"
     ELSE IF IsAncestor(ours, theirs) THEN "ff"
     ELSE IF pullMode = "merge" THEN "merge"
     ELSE "refused"

\* the working copy after the merge step, new being the id of a merge commit
PullMerge(f, new) ==
  LET b == f.HEAD.br
      kind == PullKind(f)
  IN IF kind = "ff"
       THEN [f EXCEPT !.heads[b] = f.remotes[b], !.tree = f.remotes[b]]
     ELSE IF kind = "merge"
       THEN [f EXCEPT !.heads[b] = new, !.tree = new, !.objs = @ \cup {new}]
     ELSE f

\* a pull that merges what the previous fetch brought, and fetches afterwards
PullMergeBeforeFetch(w, m, new) ==
  [kind |-> PullKind(w), w |-> WcFetch(PullMerge(w, new), m)]

\* repo.remotes.origin.pull(): what happened, and the working copy after it
Pull(w, m, new) ==
  LET f == WcFetch(w, m)
  IN [kind |-> PullKind(f), w |-> PullMerge(f, new)]

\* ---- the GitDagBundle objects
InstInit == [pc |-> "none", op |-> "none", version |-> NoCommit,
             ref |-> DefaultBranch, err |-> "none"]

GhInit == [bareClones |-> 0, fetches |-> 0, wcClones |-> 0, wcOps |-> 0,
           missed |-> FALSE, absentAfter |-> FALSE, rerun |-> FALSE,
           quiet |-> FALSE, prevValid |-> FALSE, adv |-> FALSE,
           retry |-> FALSE, after |-> "none"]

BaseInit == [valid |-> FALSE, ver |-> NoCommit, mheads |-> NoRefs]

\* ---- the paths (lines 54-57); a string is a sequence of characters
Chars == {"a", "+"}
Strs == UNION {[1..n -> Chars] : n \in 1..MaxLen}
NoStr == <<>>

\* self.version or self.tracking_ref
VersionOrRef(version, tracking_ref) ==
  IF version # NoStr THEN version ELSE tracking_ref

\* _dag_bundle_root_storage_path / "git" / self.name
BareRepoPath(name) == <<"git", name>>

\* _dag_bundle_root_storage_path / "git" / (self.name + f"+{self.version or self.tracking_ref}")
RepoPath(name, version, tracking_ref) ==
  <<"git", name \o <<"+">> \o VersionOrRef(version, tracking_ref)>>

\* name, version (NoStr when not given) and tracking_ref of a bundle
Bundles == [name : Strs, version : Strs \cup {NoStr}, tracking_ref : Strs]

\* ---- view_url (lines 131-157).  A URL is a sequence of pieces of text; the
\* pieces are chosen so that no piece, and no two adjacent pieces, contain one
\* of the texts the code looks for ("git@", ":", ".git", "//", "/", "@",
\* ".github.com", ...) other than as whole pieces.
GitAt == <<"git", "@">>
Https == <<"https", ":", "/", "/">>
DotGit == <<".", "git">>
GithubCom == <<"git", "hub.com">>
GitlabCom == <<"git", "lab.com">>
BitbucketOrg == <<"bitbucket.org">>

\* str.startswith, str.endswith
StartsWith(s, p) == Len(s) >= Len(p) /\ SubSeq(s, 1, Len(p)) = p
EndsWith(s, p) == Len(s) >= Len(p) /\ SubSeq(s, Len(s) - Len(p) + 1, Len(s)) = p

\* str.find, counting from 1: where p first occurs in s, 0 when it does not
Find(s, p) ==
  LET at == {k \in 1..(Len(s) - Len(p) + 1) : SubSeq(s, k, k + Len(p) - 1) = p}
  IN IF at = {} THEN 0 ELSE CHOOSE k \in at : \A j \in at : k <= j

\* str.rfind: where p last occurs in s
RFind(s, p) ==
  LET at == {k \in 1..(Len(s) - Len(p) + 1) : SubSeq(s, k, k + Len(p) - 1) = p}
  IN IF at = {} THEN 0 ELSE CHOOSE k \in at : \A j \in at : k >= j

\* str.replace(old, new): every occurrence, left to right
RECURSIVE Replace(_, _, _)
Replace(s, old, new) ==
  LET k == Find(s, old)
  IN IF k = 0 THEN s
     ELSE SubSeq(s, 1, k - 1) \o new \o Replace(SubSeq(s, k + Len(old), Len(s)), old, new)

\* str.split(sep) for a one-piece separator: the list of all the parts
RECURSIVE Split(_, _)
Split(s, sep) ==
  LET k == Find(s, sep)
  IN IF k = 0 THEN <<s>>
     ELSE <<SubSeq(s, 1, k - 1)>> \o Split(SubSeq(s, k + 1, Len(s)), sep)

\* the pieces made of the characters urlsplit accepts in a scheme
SchemePieces == {"git", "https", "x", ".", "hub.com", "lab.com", "bitbucket.org"}

\* urlparse(url).hostname: the scheme is what precedes the first ":" when that
\* is letters, digits, "+", "-", "." and starts with a letter; the netloc is
\* what follows "//" up to the next "/"; the hostname is the netloc after its
\* last "@" and before its ":"; None (NoStr) when that is empty
Hostname(url) ==
  LET i == Find(url, <<":">>)
      scheme == /\ i > 1
                /\ url[1] # "."
                /\ \A k \in 1..(i - 1) : url[k] \in SchemePieces
      rest == IF scheme THEN SubSeq(url, i + 1, Len(url)) ELSE url
      after == SubSeq(rest, 3, Len(rest))
      j == Find(after, <<"/">>)
      netloc == IF ~StartsWith(rest, <<"/", "/">>) THEN NoStr
                ELSE IF j = 0 THEN after ELSE SubSeq(after, 1, j - 1)
      hostinfo == SubSeq(netloc, RFind(netloc, <<"@">>) + 1, Len(netloc))
      c == Find(hostinfo, <<":">>)
  IN IF c = 0 THEN hostinfo ELSE SubSeq(hostinfo, 1, c - 1)

\* what a call gave: kind is "url" (val is the link), "none", or the exception;
\* url is the local variable url of view_url when line 144 is reached
NoCall == [op |-> "none", kind |-> "none", val |-> NoStr, url |-> NoStr]

Raised(op, e) == [op |-> op, kind |-> e, val |-> NoStr, url |-> NoStr]

\* lines 131-137, _convert_git_ssh_url_to_https
ConvertGitSshUrlToHttps(repo_url) ==
  IF ~StartsWith(repo_url, GitAt) THEN Raised("convert", "ValueError")
  ELSE LET parts == Split(repo_url, <<":">>)
       IN IF Len(parts) < 2 THEN Raised("convert", "IndexError")
          ELSE [op |-> "convert", kind |-> "url", url |-> NoStr,
                val |-> Replace(parts[1], GitAt, Https) \o <<"/">>
                          \o Replace(parts[2], DotGit, NoStr)]

\* host_patterns, in the order of the dict: the host and what follows url
HostPatterns ==
  << [host |-> GithubCom, path |-> <<"/", "tree", "/">>],
     [host |-> GitlabCom, path |-> <<"/", "-", "/", "tree", "/">>],
     [host |-> BitbucketOrg, path |-> <<"/", "src", "/">>] >>

\* a test that takes any host ending with the provider's name
HostEndsWith(host, allowed_host) == EndsWith(host, allowed_host)

\* host == allowed_host or host.endswith(f".{allowed_host}")
HostAllowed(host, allowed_host) ==
  host = allowed_host \/ EndsWith(host, <<".">> \o allowed_host)

\* lines 154-157: the template of the first pattern that takes the host
RECURSIVE FirstTemplate(_, _, _, _)
FirstTemplate(k, host, url, version) ==
  IF k > Len(HostPatterns) THEN [op |-> "view_url", kind |-> "none", val |-> NoStr, url |-> url]
  ELSE IF HostAllowed(host, HostPatterns[k].host)
    THEN [op |-> "view_url", kind |-> "url", url |-> url,
          val |-> url \o HostPatterns[k].path \o version]
  ELSE FirstTemplate(k + 1, host, url, version)

\* lines 139-157, view_url
ViewUrl(repo_url, version) ==
  IF version = NoStr THEN [op |-> "view_url", kind |-> "none", val |-> NoStr, url |-> NoStr]
  ELSE LET conv == IF StartsWith(repo_url, GitAt)
                     THEN ConvertGitSshUrlToHttps(repo_url)
                     ELSE [op |-> "convert", kind |-> "url", val |-> repo_url, url |-> NoStr]
       IN IF conv.kind # "url" THEN Raised("view_url", conv.kind)
          ELSE IF Hostname(conv.val) = NoStr
            THEN [op |-> "view_url", kind |-> "none", val |-> NoStr, url |-> conv.val]
          ELSE FirstTemplate(1, Hostname(conv.val), conv.val, version)

\* the repo_url values tried: a beginning, a host, a separator and a path
UrlStarts == {NoStr, GitAt, <<"x", "@">>, Https}
UrlHosts == {NoStr, <<"x">>, GithubCom, <<"x", ".">> \o GithubCom, <<"x">> \o GithubCom,
             GitlabCom, BitbucketOrg, <<"x", ".">> \o BitbucketOrg}
UrlSeps == {NoStr, <<":">>, <<"/">>}
UrlPaths == {NoStr, <<"x">>, <<"x">> \o DotGit, <<"x">> \o DotGit \o <<"/", "x">> \o DotGit,
             <<"x", ":", "x">>}
Urls == {a \o h \o s \o p : a \in UrlStarts, h \in UrlHosts, s \in UrlSeps, p \in UrlPaths}
UrlVersions == {NoStr, <<"x">>}
NoUrlInput == [repo_url |-> NoStr, version |-> NoStr]

InitDisk ==
  /\ ncommits = 1
  /\ parents = [c \in Commits |-> {}]
  /\ origin = [b \in Branches |-> IF b = DefaultBranch THEN 1 ELSE NoCommit]
  /\ pullMode \in {"merge", "refuse"}
  /\ mirror = NoMirror
  /\ wc = [k \in Keys |-> NoWc]
  /\ inst = [i \in Inst |-> InstInit]
  /\ gh = [i \in Inst |-> GhInit]
  /\ mirrorClones = 0
  /\ resolved = {}
  /\ base = [i \in Inst |-> BaseInit]
  /\ nops = 0
  /\ nforce = 0

Init ==
  /\ InitDisk
  /\ pin = <<>>
  /\ pout = <<>>
  /\ uin = NoUrlInput
  /\ uout = NoCall
  /\ serial = TRUE

\* two bundles with any arguments, before __init__ has computed their paths
InitPath ==
  /\ InitDisk
  /\ pin \in Bundles \X Bundles
  /\ pout = <<>>
  /\ uin = NoUrlInput
  /\ uout = NoCall
  /\ serial = TRUE

\* a bundle with any repo_url, and a version argument, before view_url is called
InitUrl ==
  /\ InitDisk
  /\ pin = <<>>
  /\ pout = <<>>
  /\ uin \in [repo_url : Urls, version : UrlVersions]
  /\ uout = NoCall
  /\ serial = TRUE

Idle(i) == inst[i].pc \in {"none", "ready", "failed"}

\* the code itself never waits for another instance
CanStartAlways(i) == TRUE

\* The caller runs one operation at a time per cache key (all instances here
\* share one name, hence one mirror); a constructor that raised has left no
\* object, and its exception is gone (Drop) before the caller goes on.
CanStart(i) == serial => \A j \in Inst : inst[j].pc \in {"none", "ready"}

\* an exception leaves the constructor without an object; refresh() on a
\* live object leaves the object
Raise(i, e) ==
  [inst EXCEPT ![i].pc = IF inst[i].op = "construct" THEN "failed" ELSE "ready",
               ![i].err = e]

Goto(i, l) == [inst EXCEPT ![i].pc = l]

\* self.version is set
Pinned(i) == inst[i].version # NoCommit

\* instance i is inside __init__
InConstructor(i) == inst[i].op = "construct" /\ inst[i].pc \notin {"none", "ready", "failed"}

\* ---- the origin moves
\* Only lines 58, 59 and 128 read the origin; every other step is local to the
\* disk and commutes with a change of the origin, so the origin is moved only
\* when no instance is between such steps.
OriginObserved == \A j \in Inst : inst[j].pc \in {"none", "ready", "failed", "L58", "L82", "L59", "L128"}

UpstreamSeen ==
  /\ OriginObserved
  /\ base' = [j \in Inst |-> [base[j] EXCEPT !.valid = FALSE]]
  /\ gh' = [j \in Inst |-> [gh[j] EXCEPT !.quiet = FALSE]]

\* a new commit on top of branch b
UpstreamPush(b) ==
  /\ origin[b] # NoCommit
  /\ ncommits < MaxCommits
  /\ ncommits' = ncommits + 1
  /\ parents' = [parents EXCEPT ![ncommits + 1] = {origin[b]}]
  /\ origin' = [origin EXCEPT ![b] = ncommits + 1]
  /\ UpstreamSeen
  /\ UNCHANGED <<pullMode, mirror, wc, inst, mirrorClones, resolved, nops, nforce, pin, pout, uin, uout, serial>>

\* branch b is forced to an existing commit c
UpstreamForcePush(b, c) ==
  /\ origin[b] # NoCommit
  /\ c \in UpstreamCommits
  /\ c # origin[b]
  /\ nforce < MaxForce
  /\ nforce' = nforce + 1
  /\ origin' = [origin EXCEPT ![b] = c]
  /\ UpstreamSeen
  /\ UNCHANGED <<ncommits, parents, pullMode, mirror, wc, inst, mirrorClones, resolved, nops, pin, pout, uin, uout, serial>>

\* ---- __init__
StartConstruct(i, v, r) ==
  /\ inst[i].pc = "none"
  /\ CanStart(i)
  /\ nops < MaxOps
  /\ nops' = nops + 1
  /\ inst' = [inst EXCEPT ![i] = [pc |-> "L58", op |-> "construct", version |-> v,
                                  ref |-> r, err |-> "none"]]
  /\ gh' = [gh EXCEPT ![i] =
              [GhInit EXCEPT !.rerun = /\ v # NoCommit
                                       /\ mirror.exists
                                       /\ wc[WcKey(v, r)].exists
                                       /\ HeadCommit(wc[WcKey(v, r)]) = v
                                       /\ Clean(wc[WcKey(v, r)])]]
  /\ base' = [base EXCEPT ![i] = BaseInit]
  /\ UNCHANGED <<ncommits, parents, origin, pullMode, mirror, wc, mirrorClones, resolved, nforce, pin, pout, uin, uout, serial>>

\* a bare clone whether or not the path exists
BareCloneAlways(m) == TRUE

\* a constructor that never clones the mirror
BareCloneNever(m) == FALSE

\* os.path.exists(self.bare_repo_path) is false
BareCloneRequired(m) == ~m.exists

\* line 58, _clone_bare_repo_if_required
CloneBareRepoIfRequired(i) ==
  /\ inst[i].pc = "L58"
  /\ IF BareCloneRequired(mirror)
       THEN /\ mirror' = CloneBare(origin)
            /\ mirrorClones' = mirrorClones + 1
            /\ gh' = [gh EXCEPT ![i].bareClones = @ + 1]
            /\ inst' = Goto(i, "L59")
       ELSE /\ UNCHANGED <<mirror, mirrorClones, gh>>
            /\ inst' = IF IsRepo(mirror) THEN Goto(i, "L59") ELSE Raise(i, "ToolFailure")
  /\ UNCHANGED <<ncommits, parents, origin, pullMode, wc, resolved, base, nops, nforce, pin, pout, uin, uout, serial>>

\* a fetch for every pinned construction, found or not
BareFetchAlways(m, version) == version # NoCommit

\* the first test of _ensure_version_in_bare_repo: fetch wanted
BareFetchRequired(m, version) == version # NoCommit /\ ~HasVersion(m, version)

\* no second test: the constructor goes on without the version
VersionNeverMissing(m, version) == FALSE

\* the second test: raise when the version is still not there
VersionMissing(m, version) == version # NoCommit /\ ~HasVersion(m, version)

\* line 59, _ensure_version_in_bare_repo
EnsureVersionInBareRepo(i) ==
  /\ inst[i].pc = "L59"
  /\ LET v == inst[i].version
         fetch == BareFetchRequired(mirror, v)
         m2 == IF fetch THEN FetchHeads(mirror, origin) ELSE mirror
         raise == fetch /\ VersionMissing(m2, v)
     IN /\ mirror' = m2
        /\ inst' = IF raise THEN Raise(i, "VersionNotFound") ELSE Goto(i, "L60")
        /\ gh' = [gh EXCEPT ![i].fetches = IF fetch THEN @ + 1 ELSE @,
                            ![i].missed = v # NoCommit /\ ~(v \in mirror.objs),
                            ![i].absentAfter = v # NoCommit /\ ~(v \in m2.objs)]
  /\ UNCHANGED <<ncommits, parents, origin, pullMode, wc, mirrorClones, resolved, base, nops, nforce, pin, pout, uin, uout, serial>>

\* a clone whether or not the path exists
CloneAlways(w) == TRUE

\* os.path.exists(self.repo_path) is false
CloneRequired(w) == ~w.exists

\* line 60, _clone_repo_if_required
CloneRepoIfRequired(i) ==
  /\ inst[i].pc = "L60"
  /\ IF CloneRequired(wc[KeyOf(i)])
       THEN /\ wc' = [wc EXCEPT ![KeyOf(i)] = CloneFromMirror(mirror)]
            /\ gh' = [gh EXCEPT ![i].wcClones = @ + 1, ![i].wcOps = @ + 1]
            /\ inst' = Goto(i, "L61")
       ELSE /\ UNCHANGED <<wc, gh>>
            /\ inst' = IF IsRepo(wc[KeyOf(i)]) THEN Goto(i, "L61") ELSE Raise(i, "ToolFailure")
  /\ UNCHANGED <<ncommits, parents, origin, pullMode, mirror, mirrorClones, resolved, base, nops, nforce, pin, pout, uin, uout, serial>>

\* line 61, self.repo.git.checkout(self.tracking_ref)
CheckoutTrackingRef(i) ==
  /\ inst[i].pc = "L61"
  /\ IF CheckoutOk(wc[KeyOf(i)], inst[i].ref)
       THEN /\ wc' = [wc EXCEPT ![KeyOf(i)] = Checkout(@, inst[i].ref)]
            /\ inst' = Goto(i, "L63")
            /\ gh' = [gh EXCEPT ![i].wcOps = @ + 1]
       ELSE /\ inst' = Raise(i, "ToolFailure")
            /\ UNCHANGED <<wc, gh>>
  /\ UNCHANGED <<ncommits, parents, origin, pullMode, mirror, mirrorClones, resolved, base, nops, nforce, pin, pout, uin, uout, serial>>

\* lines 63-65 and 69-70: the pinned branch fetches into the working copy when
\* the version is not in it; the tracking branch calls refresh()
PinnedOrTracking(i) ==
  /\ inst[i].pc = "L63"
  /\ IF inst[i].version # NoCommit
       THEN /\ inst' = Goto(i, "L67")
            /\ IF ~HasVersion(wc[KeyOf(i)], inst[i].version)
                 THEN /\ wc' = [wc EXCEPT ![KeyOf(i)] = WcFetch(@, mirror)]
                      /\ gh' = [gh EXCEPT ![i].wcOps = @ + 1]
                 ELSE UNCHANGED <<wc, gh>>
       ELSE /\ inst' = Goto(i, "L125")
            /\ UNCHANGED <<wc, gh>>
  /\ UNCHANGED <<ncommits, parents, origin, pullMode, mirror, mirrorClones, resolved, base, nops, nforce, pin, pout, uin, uout, serial>>

\* line 67, self.repo.head.set_reference(self.repo.commit(self.version))
SetHeadToVersion(i) ==
  /\ inst[i].pc = "L67"
  /\ IF HasVersion(wc[KeyOf(i)], inst[i].version)
       THEN /\ wc' = [wc EXCEPT ![KeyOf(i)] = SetReference(@, inst[i].version)]
            /\ inst' = Goto(i, "L68")
            /\ gh' = [gh EXCEPT ![i].wcOps = @ + 1]
       ELSE /\ inst' = Raise(i, "ToolFailure")
            /\ UNCHANGED <<wc, gh>>
  /\ UNCHANGED <<ncommits, parents, origin, pullMode, mirror, mirrorClones, resolved, base, nops, nforce, pin, pout, uin, uout, serial>>

\* line 68, self.repo.head.reset(index=True, working_tree=True)
ResetToHead(i) ==
  /\ inst[i].pc = "L68"
  /\ wc' = [wc EXCEPT ![KeyOf(i)] = ResetHard(@)]
  /\ inst' = Goto(i, "ready")
  /\ gh' = [gh EXCEPT ![i].wcOps = @ + 1]
  /\ resolved' = resolved \cup {KeyOf(i)}
  /\ UNCHANGED <<ncommits, parents, origin, pullMode, mirror, mirrorClones, base, nops, nforce, pin, pout, uin, uout, serial>>

\* ---- refresh()
StartRefresh(i) ==
  /\ inst[i].pc = "ready"
  /\ CanStart(i)
  /\ nops < MaxOps
  /\ nops' = nops + 1
  /\ inst' = [inst EXCEPT ![i].pc = "L125", ![i].op = "refresh", ![i].err = "none"]
  /\ gh' = [gh EXCEPT ![i] = GhInit]
  /\ UNCHANGED <<ncommits, parents, origin, pullMode, mirror, wc, mirrorClones, resolved, base, nforce, pin, pout, uin, uout, serial>>

\* refresh() without its test of self.version
RefreshNeverRejected(version) == FALSE

\* if self.version
RefreshRejected(version) == version # NoCommit

\* lines 125-126
RefreshCheck(i) ==
  /\ inst[i].pc = "L125"
  /\ inst' = IF RefreshRejected(inst[i].version)
               THEN Raise(i, "RefreshNotSupported")
               ELSE Goto(i, "L128")
  /\ UNCHANGED <<ncommits, parents, origin, pullMode, mirror, wc, gh, mirrorClones, resolved, base, nops, nforce, pin, pout, uin, uout, serial>>

\* line 128
RefreshFetch(i) ==
  /\ inst[i].pc = "L128"
  /\ mirror' = FetchHeads(mirror, origin)
  /\ inst' = Goto(i, "L129")
  /\ gh' = [gh EXCEPT ![i].fetches = @ + 1,
                      ![i].quiet = TRUE,
                      ![i].prevValid = base[i].valid,
                      ![i].adv = /\ mirror.heads[inst[i].ref] # NoCommit
                                 /\ mirror.heads[inst[i].ref] # origin[inst[i].ref]
                                 /\ IsAncestor(mirror.heads[inst[i].ref], origin[inst[i].ref])]
  /\ UNCHANGED <<ncommits, parents, origin, pullMode, wc, mirrorClones, resolved, base, nops, nforce, pin, pout, uin, uout, serial>>

\* line 129
RefreshPull(i) ==
  /\ inst[i].pc = "L129"
  /\ LET k == KeyOf(i)
         new == ncommits + 1
         kind == Pull(wc[k], mirror, new).kind
         w2 == Pull(wc[k], mirror, new).w
     IN /\ kind = "merge" => ncommits < MaxCommits
        /\ wc' = [wc EXCEPT ![k] = w2]
        /\ IF kind = "merge"
             THEN /\ ncommits' = new
                  /\ parents' = [parents EXCEPT ![new] = {HeadCommit(wc[k]), mirror.heads[wc[k].HEAD.br]}]
             ELSE UNCHANGED <<ncommits, parents>>
        /\ inst' = IF kind = "refused"
                     THEN Raise(i, "ToolFailure")
                     ELSE [inst EXCEPT ![i].pc = "ready"]
        /\ base' = [base EXCEPT ![i] = [valid |-> gh[i].quiet,
                                        ver |-> HeadCommit(w2),
                                        mheads |-> mirror.heads]]
        /\ gh' = [gh EXCEPT ![i].wcOps = @ + 1]
  /\ UNCHANGED <<origin, pullMode, mirror, mirrorClones, resolved, nops, nforce, pin, pout, uin, uout, serial>>

\* the process holding the object ends; the disk stays
Drop(i) ==
  /\ inst[i].pc \in {"ready", "failed"}
  /\ inst' = [inst EXCEPT ![i] = InstInit]
  /\ gh' = [gh EXCEPT ![i] = GhInit]
  /\ base' = [base EXCEPT ![i] = BaseInit]
  /\ UNCHANGED <<ncommits, parents, origin, pullMode, mirror, wc, mirrorClones, resolved, nops, nforce, pin, pout, uin, uout, serial>>

Next ==
  \/ \E b \in Branches : UpstreamPush(b)
  \/ \E b \in Branches, c \in Commits : UpstreamForcePush(b, c)
  \/ \E i \in Inst, v \in {NoCommit} \cup Versions, r \in Branches : StartConstruct(i, v, r)
  \/ \E i \in Inst : CloneBareRepoIfRequired(i)
  \/ \E i \in Inst : EnsureVersionInBareRepo(i)
  \/ \E i \in Inst : CloneRepoIfRequired(i)
  \/ \E i \in Inst : CheckoutTrackingRef(i)
  \/ \E i \in Inst : PinnedOrTracking(i)
  \/ \E i \in Inst : SetHeadToVersion(i)
  \/ \E i \in Inst : ResetToHead(i)
  \/ \E i \in Inst : StartRefresh(i)
  \/ \E i \in Inst : RefreshCheck(i)
  \/ \E i \in Inst : RefreshFetch(i)
  \/ \E i \in Inst : RefreshPull(i)
  \/ \E i \in Inst : Drop(i)

Spec == Init /\ [][Next]_vars

\* lines 54-57 for both bundles
ComputePaths ==
  /\ pout = <<>>
  /\ pout' = [k \in 1..2 |->
               [bare |-> BareRepoPath(pin[k].name),
                repo |-> RepoPath(pin[k].name, pin[k].version, pin[k].tracking_ref)]]
  /\ UNCHANGED <<ncommits, parents, origin, pullMode, mirror, wc, inst, gh,
                 mirrorClones, resolved, base, nops, nforce, pin, uin, uout, serial>>

NextPath == ComputePaths

SpecPath == InitPath /\ [][NextPath]_vars

\* bundle.view_url(version)
CallViewUrl ==
  /\ uout = NoCall
  /\ uout' = ViewUrl(uin.repo_url, uin.version)
  /\ UNCHANGED <<ncommits, parents, origin, pullMode, mirror, wc, inst, gh,
                 mirrorClones, resolved, base, nops, nforce, pin, pout, uin, serial>>

\* bundle._convert_git_ssh_url_to_https()
CallConvert ==
  /\ uout = NoCall
  /\ uout' = ConvertGitSshUrlToHttps(uin.repo_url)
  /\ UNCHANGED <<ncommits, parents, origin, pullMode, mirror, wc, inst, gh,
                 mirrorClones, resolved, base, nops, nforce, pin, pout, uin, serial>>

NextUrl == CallViewUrl \/ CallConvert

SpecUrl == InitUrl /\ [][NextUrl]_vars

\* ---- the constructor without a caller that serialises: the test of the path
\* and the clone are two steps, and another instance may run between them
InitConc ==
  /\ InitDisk
  /\ pin = <<>>
  /\ pout = <<>>
  /\ uin = NoUrlInput
  /\ uout = NoCall
  /\ serial \in BOOLEAN

\* line 81, if not os.path.exists(self.bare_repo_path)
ObserveBareRepoPath(i) ==
  /\ inst[i].pc = "L58"
  /\ inst' = Goto(i, IF BareCloneRequired(mirror) THEN "L82" ELSE "L59")
  /\ UNCHANGED <<ncommits, parents, origin, pullMode, mirror, wc, gh, mirrorClones, resolved, base, nops, nforce, pin, pout, uin, uout, serial>>

\* lines 82-87, Repo.clone_from(url=repo_url, bare=True): into a path that
\* another clone has filled since line 81, git refuses, or (both clones
\* having started on the empty path) writes over it
CloneBareRepo(i) ==
  /\ inst[i].pc = "L82"
  /\ \/ /\ mirror' = CloneBare(origin)
        /\ mirrorClones' = mirrorClones + 1
        /\ gh' = [gh EXCEPT ![i].bareClones = @ + 1]
        /\ inst' = Goto(i, "L59")
     \/ /\ mirror.exists
        /\ inst' = Raise(i, "ToolFailure")
        /\ UNCHANGED <<mirror, mirrorClones, gh>>
  /\ UNCHANGED <<ncommits, parents, origin, pullMode, wc, resolved, base, nops, nforce, pin, pout, uin, uout, serial>>

\* line 73, if not os.path.exists(self.repo_path)
ObserveRepoPath(i) ==
  /\ inst[i].pc = "L60"
  /\ inst' = Goto(i, IF CloneRequired(wc[KeyOf(i)]) THEN "L74" ELSE "L61")
  /\ UNCHANGED <<ncommits, parents, origin, pullMode, mirror, wc, gh, mirrorClones, resolved, base, nops, nforce, pin, pout, uin, uout, serial>>

\* lines 74-78, Repo.clone_from(url=bare_repo_path)
CloneRepo(i) ==
  /\ inst[i].pc = "L74"
  /\ \/ /\ wc' = [wc EXCEPT ![KeyOf(i)] = CloneFromMirror(mirror)]
        /\ gh' = [gh EXCEPT ![i].wcClones = @ + 1, ![i].wcOps = @ + 1]
        /\ inst' = Goto(i, "L61")
     \/ /\ wc[KeyOf(i)].exists
        /\ inst' = Raise(i, "ToolFailure")
        /\ UNCHANGED <<wc, gh>>
  /\ UNCHANGED <<ncommits, parents, origin, pullMode, mirror, mirrorClones, resolved, base, nops, nforce, pin, pout, uin, uout, serial>>

NextConc ==
  \/ \E b \in Branches : UpstreamPush(b)
  \/ \E i \in Inst, v \in {NoCommit} \cup Versions, r \in Branches : StartConstruct(i, v, r)
  \/ \E i \in Inst : ObserveBareRepoPath(i)
  \/ \E i \in Inst : CloneBareRepo(i)
  \/ \E i \in Inst : EnsureVersionInBareRepo(i)
  \/ \E i \in Inst : ObserveRepoPath(i)
  \/ \E i \in Inst : CloneRepo(i)
  \/ \E i \in Inst : CheckoutTrackingRef(i)
  \/ \E i \in Inst : PinnedOrTracking(i)
  \/ \E i \in Inst : SetHeadToVersion(i)
  \/ \E i \in Inst : ResetToHead(i)
  \/ \E i \in Inst : RefreshCheck(i)
  \/ \E i \in Inst : RefreshFetch(i)
  \/ \E i \in Inst : RefreshPull(i)
  \/ \E i \in Inst : Drop(i)

SpecConc == InitConc /\ [][NextConc]_vars

\* ---- constructions that are killed, and run again
\* The process is killed while instance i is in its constructor.  Between two
\* calls nothing more is written.  Inside a call: a clone leaves its path
\* behind, not yet a repository; a fetch leaves the objects it had received,
\* the refs not yet moved; a checkout or reset leaves the index and working
\* tree neither at the old nor at the new commit (tree NoCommit).
Interrupt(i) ==
  /\ InConstructor(i)
  /\ inst' = [inst EXCEPT ![i].pc = "failed", ![i].err = "Interrupted"]
  /\ gh' = [gh EXCEPT ![i].after = inst[i].pc]
  /\ \/ UNCHANGED <<mirror, wc>>
     \/ /\ inst[i].pc = "L58" /\ BareCloneRequired(mirror)
        /\ mirror' = Partial(NoMirror)
        /\ UNCHANGED wc
     \/ /\ inst[i].pc = "L59" /\ BareFetchRequired(mirror, inst[i].version)
        /\ mirror' = [mirror EXCEPT !.objs = @ \cup Reach(origin)]
        /\ UNCHANGED wc
     \/ /\ inst[i].pc = "L60" /\ CloneRequired(wc[KeyOf(i)])
        /\ wc' = [wc EXCEPT ![KeyOf(i)] = Partial(NoWc)]
        /\ UNCHANGED mirror
     \/ /\ inst[i].pc \in {"L61", "L68"}
        /\ wc' = [wc EXCEPT ![KeyOf(i)].tree = NoCommit]
        /\ UNCHANGED mirror
  /\ UNCHANGED <<ncommits, parents, origin, pullMode, mirrorClones, resolved, base, nops, nforce, pin, pout, uin, uout, serial>>

\* the caller constructs the bundle again, with the same arguments, after a
\* construction that raised or was killed
Retry(i) ==
  /\ inst[i].pc = "failed"
  /\ \A j \in Inst \ {i} : inst[j].pc \in {"none", "ready"}
  /\ nops < MaxOps
  /\ nops' = nops + 1
  /\ inst' = [inst EXCEPT ![i].pc = "L58", ![i].err = "none"]
  /\ gh' = [gh EXCEPT ![i] = [GhInit EXCEPT !.retry = TRUE,
                                            !.after = IF inst[i].err = "Interrupted"
                                                        THEN gh[i].after ELSE "raised"]]
  /\ UNCHANGED <<ncommits, parents, origin, pullMode, mirror, wc, mirrorClones, resolved, base, nforce, pin, pout, uin, uout, serial>>

\* the origin only moves forward here
NextRetry ==
  \/ \E b \in Branches : UpstreamPush(b)
  \/ \E i \in Inst, v \in {NoCommit} \cup Versions, r \in Branches : StartConstruct(i, v, r)
  \/ \E i \in Inst : CloneBareRepoIfRequired(i)
  \/ \E i \in Inst : EnsureVersionInBareRepo(i)
  \/ \E i \in Inst : CloneRepoIfRequired(i)
  \/ \E i \in Inst : CheckoutTrackingRef(i)
  \/ \E i \in Inst : PinnedOrTracking(i)
  \/ \E i \in Inst : SetHeadToVersion(i)
  \/ \E i \in Inst : ResetToHead(i)
  \/ \E i \in Inst : StartRefresh(i)
  \/ \E i \in Inst : RefreshCheck(i)
  \/ \E i \in Inst : RefreshFetch(i)
  \/ \E i \in Inst : RefreshPull(i)
  \/ \E i \in Inst : Drop(i)
  \/ \E i \in Inst : Interrupt(i)
  \/ \E i \in Inst : Retry(i)

SpecRetry == Init /\ [][NextRetry]_vars

\* ---------------------------------------------------------------------------
\* The claims
\* ---------------------------------------------------------------------------
\* the step with which instance i's constructor returns an object
ConstructionSucceeds(i) ==
  /\ InConstructor(i)
  /\ inst'[i].pc = "ready"

\* the step with which a refresh() call of instance i ends, raising or not
RefreshEnds(i) == inst[i].pc = "L129" /\ inst'[i].pc # "L129"

RefreshSucceeds(i) == inst[i].pc = "L129" /\ inst'[i].pc = "ready" /\ inst'[i].err = "none"

\* C1: a successful construction with a pinned version V ends with the working
\* copy's head at V and its index and working tree equal to V, whatever was on
\* disk before (no mirror, a stale mirror, a working copy or none).
C1_PinnedConstructionEndsAtVersion ==
  [][\A i \in Inst :
       (Pinned(i) /\ ConstructionSucceeds(i)) =>
         /\ HeadCommit(wc'[KeyOf(i)]) = inst[i].version
         /\ wc'[KeyOf(i)].tree = inst[i].version]_vars

\* a pinned construction over a stale mirror (no clone, one fetch) has returned,
\* the working copy at V while the branch is elsewhere
C1_Witness ==
  \E i \in Inst :
    /\ Pinned(i) /\ inst[i].op = "construct" /\ inst[i].pc = "ready"
    /\ gh[i].missed /\ gh[i].bareClones = 0
    /\ HeadCommit(wc[KeyOf(i)]) = inst[i].version
    /\ wc[KeyOf(i)].tree = inst[i].version
    /\ wc[KeyOf(i)].heads[inst[i].ref] # inst[i].version

\* C2: refresh() on a pinned instance always raises RefreshNotSupported, and
\* the call neither fetches into the mirror nor touches a working copy.
C2_PinnedRefreshRejected ==
  /\ [](\A i \in Inst :
          (Pinned(i) /\ inst[i].op = "refresh") =>
            /\ inst[i].pc \in {"L125", "ready"}
            /\ inst[i].pc = "ready" => inst[i].err = "RefreshNotSupported"
            /\ gh[i].fetches = 0 /\ gh[i].wcOps = 0)
  /\ [][\A i \in Inst :
          (Pinned(i) /\ inst[i].pc = "L125" /\ inst'[i] # inst[i]) =>
            /\ inst'[i].pc = "ready"
            /\ inst'[i].err = "RefreshNotSupported"
            /\ mirror' = mirror
            /\ wc' = wc]_vars

\* a refresh() call on a pinned instance has been made and has raised
C2_Witness ==
  \E i \in Inst :
    /\ Pinned(i) /\ inst[i].op = "refresh" /\ inst[i].pc = "ready"
    /\ inst[i].err = "RefreshNotSupported"
    /\ HeadCommit(wc[KeyOf(i)]) = inst[i].version

\* C3: a refresh() of a tracking instance that follows an earlier refresh() of
\* it, the origin not having changed since that one fetched, leaves
\* get_current_version() and the mirror's branch refs as the earlier one left
\* them.
C3_RefreshIdempotent ==
  [][\A i \in Inst :
       (RefreshEnds(i) /\ gh[i].prevValid) =>
         /\ HeadCommit(wc'[KeyOf(i)]) = base[i].ver
         /\ mirror'.heads = base[i].mheads]_vars

\* a second refresh() is about to pull, the origin unchanged since the first
\* one fetched, and the first one had moved the working copy
C3_Witness ==
  \E i \in Inst :
    /\ inst[i].pc = "L129" /\ inst[i].op = "refresh" /\ gh[i].prevValid
    /\ base[i].ver = HeadCommit(wc[KeyOf(i)])
    /\ base[i].ver # 1

\* C4 (as claimed): a successful refresh() after the origin's tracking ref has
\* advanced leaves get_current_version() at the new tip, and no refresh()
\* moves it back to an ancestor.
C4_RefreshReachesNewTip ==
  [][\A i \in Inst :
       RefreshSucceeds(i) =>
         /\ gh[i].adv => HeadCommit(wc'[KeyOf(i)]) = mirror.heads[inst[i].ref]
         /\ \/ HeadCommit(wc'[KeyOf(i)]) = HeadCommit(wc[KeyOf(i)])
            \/ ~IsAncestor(HeadCommit(wc'[KeyOf(i)]), HeadCommit(wc[KeyOf(i)]))]_vars

C6_RerunIsLocal ==
  /\ [](\A i \in Inst :
          (inst[i].op = "construct" /\ gh[i].rerun) =>
            /\ gh[i].bareClones = 0 /\ gh[i].wcClones = 0 /\ gh[i].fetches = 0
            /\ inst[i].pc # "failed")
  /\ [][\A i \in Inst :
          (gh[i].rerun /\ ConstructionSucceeds(i)) =>
            HeadCommit(wc'[KeyOf(i)]) = inst[i].version]_vars

\* a repeated construction has returned, the branch of its working copy being
\* at another commit than V
C6_Witness ==
  \E i \in Inst :
    /\ inst[i].op = "construct" /\ gh[i].rerun /\ inst[i].pc = "ready"
    /\ HeadCommit(wc[KeyOf(i)]) = inst[i].version
    /\ wc[KeyOf(i)].heads[inst[i].ref] # inst[i].version

\* C7: the mirror is cloned from the origin at most once; once it exists it
\* stays, is never cloned again and loses nothing.
C7_MirrorClonedOnce ==
  /\ [](mirrorClones <= 1)
  /\ [][mirror.exists =>
          /\ mirror'.exists
          /\ mirrorClones' = mirrorClones
          /\ mirror.objs \subseteq mirror'.objs]_vars

\* a later construction has passed line 58 without cloning, and the mirror
\* has since been fetched into
C7_Witness ==
  \E i \in Inst :
    /\ inst[i].op = "construct" /\ inst[i].pc = "L60"
    /\ gh[i].bareClones = 0 /\ gh[i].fetches = 1
    /\ mirrorClones = 1

\* C8 (as claimed): once the reset of a pinned working copy has completed, its
\* head is at its version in every later state.
C8_PinnedHeadNeverMoves ==
  \A k \in resolved : HeadCommit(wc[k]) = k.v

\* C9 (as claimed): bundles whose (name, version-or-ref) differ have different
\* working-copy paths, and no working-copy path is the mirror path of a bundle.
C9_PathsNeverCollide ==
  pout # <<>> =>
    /\ <<pin[1].name, VersionOrRef(pin[1].version, pin[1].tracking_ref)>>
         # <<pin[2].name, VersionOrRef(pin[2].version, pin[2].tracking_ref)>>
       => pout[1].repo # pout[2].repo
    /\ \A j, k \in 1..2 : pout[j].repo # pout[k].bare

SameOrSubdomain(host, provider) ==
  \/ host = provider
  \/ \E k \in 1..Len(host) :
       /\ host[k] = "."
       /\ SubSeq(host, k + 1, Len(host)) = provider

\* the link of provider path for url and version
Link(url, path, version) == [kind |-> "url", val |-> url \o path \o version]

\* C11: view_url(version) returns None when version is absent.  Otherwise,
\* with url the repo_url (in the https form the conversion gave for a git@
\* address) and host its hostname, a call that returns gives url/tree/version
\* for github.com and the names under it, url/-/tree/version for gitlab.com,
\* url/src/version for bitbucket.org, and None for every other host and for
\* no host; a host that only ends with a provider's name gets None.
C11_ViewUrlByProvider ==
  uout.op = "view_url" =>
    /\ uin.version = NoStr => uout.kind = "none"
    /\ (uin.version # NoStr /\ uout.kind \in {"url", "none"}) =>
         LET url == uout.url
             host == Hostname(url)
             got == [kind |-> uout.kind, val |-> uout.val]
         IN /\ IF StartsWith(uin.repo_url, GitAt)
                 THEN StartsWith(url, Https)
                 ELSE url = uin.repo_url
            /\ got = IF host = NoStr THEN [kind |-> "none", val |-> NoStr]
                     ELSE IF SameOrSubdomain(host, GithubCom)
                       THEN Link(url, <<"/", "tree", "/">>, uin.version)
                     ELSE IF SameOrSubdomain(host, GitlabCom)
                       THEN Link(url, <<"/", "-", "/", "tree", "/">>, uin.version)
                     ELSE IF SameOrSubdomain(host, BitbucketOrg)
                       THEN Link(url, <<"/", "src", "/">>, uin.version)
                     ELSE [kind |-> "none", val |-> NoStr]

\* view_url has returned the link for a git@ address whose host is a name
\* under github.com
C11_Witness ==
  /\ uout.op = "view_url" /\ uout.kind = "url"
  /\ StartsWith(uin.repo_url, GitAt)
  /\ Hostname(uout.url) = <<"x", ".">> \o GithubCom
  /\ uout.val = uout.url \o <<"/", "tree", "/">> \o uin.version

\* an address that begins git@ and has no ":" after it
MalformedSsh(u) ==
  /\ StartsWith(u, GitAt)
  /\ Find(u, <<":">>) = 0

\* C12 (as claimed): view_url with a version, and the conversion, called on an
\* address that begins git@ but has no ":" raise the invalid-URL error (the
\* ValueError of line 133), and nothing else.
C12_MalformedSshUrlIsInvalid ==
  (/\ uout.op # "none"
   /\ MalformedSsh(uin.repo_url)
   /\ uout.op = "view_url" => uin.version # NoStr)
  => uout.kind = "ValueError"

\* path without a ".git" at its end
StripDotGit(path) ==
  IF EndsWith(path, DotGit) THEN SubSeq(path, 1, Len(path) - Len(DotGit)) ELSE path

\* git@host:path, cut at its first ":"
SshStyle(u) ==
  /\ StartsWith(u, GitAt)
  /\ Find(u, <<":">>) > 3
  /\ \A k \in 3..(Find(u, <<":">>) - 1) : u[k] \notin {"@", "/"}

SshHost(u) == SubSeq(u, 3, Find(u, <<":">>) - 1)

SshPath(u) == SubSeq(u, Find(u, <<":">>) + 1, Len(u))

\* C13 (as claimed): for every address git@host:path the conversion returns
\* https://host/path', the address cut at its first ":" only and path' being
\* path without a ".git" at its end.
C13_ConversionOfSshUrl ==
  (uout.op = "convert" /\ SshStyle(uin.repo_url)) =>
    /\ uout.kind = "url"
    /\ uout.val = Https \o SshHost(uin.repo_url) \o <<"/">>
                    \o StripDotGit(SshPath(uin.repo_url))

\* where a constructor at label l may be after its next step
StepsAfter(l, pinned) ==
  CASE l = "L58" -> {"L59"}
    [] l = "L59" -> IF pinned THEN {"L60", "failed"} ELSE {"L60"}
    [] l = "L60" -> {"L61"}
    [] l = "L61" -> {"L63", "failed"}
    [] l = "L63" -> IF pinned THEN {"L67"} ELSE {"L125"}
    [] l = "L67" -> {"L68", "failed"}
    [] l = "L68" -> {"ready"}
    [] l = "L125" -> IF pinned THEN {"failed"} ELSE {"L128"}
    [] l = "L128" -> {"L129"}
    [] l = "L129" -> {"ready", "failed"}
    [] OTHER -> {}

\* C14: a construction goes through its steps in one order: mirror (58), for a
\* pinned one the version in the mirror (59), working copy (60), checkout of
\* the tracking ref (61), then detach (67) and reset (68) when pinned, refresh
\* (125-129) when tracking.  The mirror comes into being only at step 58 and is
\* fetched into only at 59 (pinned) and 128; a working copy comes into being
\* only at step 60, when the mirror exists, and as a copy of the mirror (its
\* objects and branches, not the origin's); step 61 leaves the head on the
\* tracking ref in pinned and tracking constructions alike.
C14_ConstructionStepOrder ==
  [][/\ \A i \in Inst :
          (InConstructor(i) /\ inst'[i] # inst[i]) =>
            /\ inst'[i].pc \in StepsAfter(inst[i].pc, Pinned(i))
            /\ mirror' # mirror =>
                 \/ inst[i].pc = "L58" /\ ~mirror.exists
                 \/ inst[i].pc = "L59" /\ Pinned(i) /\ mirror.exists
                 \/ inst[i].pc = "L128" /\ mirror.exists
            /\ wc' # wc => inst[i].pc \in {"L60", "L61", "L63", "L67", "L68", "L129"}
            /\ (inst[i].pc = "L61" /\ inst'[i].pc = "L63") =>
                 /\ wc'[KeyOf(i)].HEAD.br = inst[i].ref
                 /\ Clean(wc'[KeyOf(i)])
     /\ \A k \in Keys :
          (~wc[k].exists /\ wc'[k].exists) =>
            /\ mirror.exists
            /\ \E i \in Inst : inst[i].pc = "L60" /\ KeyOf(i) = k /\ inst'[i].pc = "L61"
            /\ wc'[k].objs = mirror.objs
            /\ wc'[k].remotes = mirror.heads
            /\ HeadCommit(wc'[k]) = mirror.heads[DefaultBranch]]_vars

\* a pinned construction has cloned its working copy from a mirror that is
\* behind the origin, and has checked out the tracking ref in it
C14_Witness ==
  \E i \in Inst :
    /\ Pinned(i) /\ inst[i].op = "construct" /\ inst[i].pc = "L67"
    /\ gh[i].bareClones = 0 /\ gh[i].wcClones = 1
    /\ mirror.heads[inst[i].ref] # origin[inst[i].ref]
    /\ wc[KeyOf(i)].HEAD.br = inst[i].ref
    /\ HeadCommit(wc[KeyOf(i)]) = mirror.heads[inst[i].ref]

\* two constructors have both found one path absent and are both about to
\* clone into it
BothCloning ==
  \E i, j \in Inst :
    /\ i # j
    /\ \/ inst[i].pc = "L82" /\ inst[j].pc = "L82"
       \/ inst[i].pc = "L74" /\ inst[j].pc = "L74" /\ KeyOf(i) = KeyOf(j)

\* C15: the code takes no lock.  When the caller runs one operation at a time
\* per cache key, two constructors are never both between the test of a path
\* and the clone into it, and no clone finds its path filled; without that,
\* such states are reached (the witness).
C15_SerialisedCallersNeverRace ==
  serial =>
    /\ ~BothCloning
    /\ \A i \in Inst : inst[i].pc = "L82" => ~mirror.exists
    /\ \A i \in Inst : inst[i].pc = "L74" => ~wc[KeyOf(i)].exists

\* without serialisation: two constructors found the mirror path absent, one
\* has cloned, and the other is about to clone into the same path
C15_Witness ==
  /\ ~serial
  /\ \E i, j \in Inst :
       /\ i # j
       /\ inst[i].pc = "L82" /\ mirror.exists
       /\ inst[j].op = "construct" /\ gh[j].bareClones = 1

\* the step with which instance i's constructor ends, returning or raising
ConstructionEnds(i) == InConstructor(i) /\ inst'[i].pc \in {"ready", "failed"}

\* what a killed clone, checkout or reset left of the repositories of i
LeftBroken(i) ==
  \/ mirror.exists /\ ~IsRepo(mirror)
  \/ wc[KeyOf(i)].exists /\ ~IsRepo(wc[KeyOf(i)])
  \/ wc[KeyOf(i)].exists /\ wc[KeyOf(i)].tree = NoCommit

C17_TrackingConstructionEndsAtTip ==
  [][\A i \in Inst :
       (~Pinned(i) /\ ConstructionSucceeds(i) /\ gh[i].wcClones = 1) =>
         /\ mirror'.heads[inst[i].ref] = origin[inst[i].ref]
         /\ HeadCommit(wc'[KeyOf(i)]) = mirror'.heads[inst[i].ref]]_vars

\* C18: lines 67-68 applied to a working copy whose head is detached at V and
\* whose index and working tree are at V change nothing in it, and applied
\* twice to any working copy that holds V give what applying them once gives:
\* head, index and working tree at V.
C18_DetachAndResetIdempotent ==
  \A k \in Keys, v \in Versions :
    (IsRepo(wc[k]) /\ HasVersion(wc[k], v)) =>
      /\ DetachAndReset(DetachAndReset(wc[k], v), v) = DetachAndReset(wc[k], v)
      /\ HeadCommit(DetachAndReset(wc[k], v)) = v
      /\ DetachAndReset(wc[k], v).tree = v
      /\ (wc[k].HEAD = [br |-> Detached, at |-> v] /\ wc[k].tree = v) =>
           DetachAndReset(wc[k], v) = wc[k]

\* on disk are a working copy detached at V with its branch elsewhere, and a
\* working copy on its branch at another commit that holds V as well
C18_Witness ==
  \E k, j \in Keys, v \in Versions :
    /\ IsRepo(wc[k]) /\ wc[k].HEAD = [br |-> Detached, at |-> v] /\ wc[k].tree = v
    /\ wc[k].heads[DefaultBranch] # v
    /\ IsRepo(wc[j]) /\ wc[j].HEAD.br # Detached /\ HasVersion(wc[j], v)
    /\ HeadCommit(wc[j]) # v
    /\ DetachAndReset(wc[j], v) # wc[j]

\* C19 (as claimed): whenever an instance has returned from its constructor
\* or from refresh() without an exception, the head commit of its working
\* copy is a commit the mirror holds.
C19_HeadIsInMirror ==
  \A i \in Inst :
    (inst[i].pc = "ready" /\ inst[i].err = "none") =>
      HeadCommit(wc[KeyOf(i)]) \in mirror.objs

====
